---------------------------- MODULE Spec2Model ----------------------------
(***************************************************************************)
(* braidMgr: the status indicator engine of the RAID-log backend           *)
(* (backend/src/services/indicator_service.py).                            *)
(*                                                                         *)
(* calculate_indicator maps an item (draft flag, percent complete, start,  *)
(* finish and deadline dates, last-update timestamp) and a reference date  *)
(* to one of ten indicators or to None, by ten rules tried in order.       *)
(*                                                                         *)
(* Dates are day ordinals (integers); a timestamp is a count of ticks,     *)
(* TicksPerDay ticks to the day; an Optional value is <<>> (None) or <<v>>.*)
(* The trending-late test is floating-point arithmetic in the source; it   *)
(* is modelled by IEEE-754 binary64 arithmetic on digit strings.           *)
(***************************************************************************)
EXTENDS Integers, Sequences, FiniteSets, TLC

VARIABLES
    item,        \* the item calculate_indicator is called on
    today,       \* the reference date
    result,      \* the outcome of the call
    pc,          \* "call" before the call, "done" after it
    indicators,  \* the indicators get_indicator_severity is called on
    severities,  \* the severities it returned
    items,       \* the list calculate_indicators_batch is called on
    pairs,       \* the outcome of the batch call
    projects,    \* the projects table: project id -> row
    table,       \* the items table: a row per item, item id = position
    now,         \* the clock, in ticks
    ret,         \* what the last service call returned
    calls,       \* the create_item calls in flight: caller -> position, data
    dependencies \* the item_dependencies table: a row per dependency

engineVars == <<item, today, result>>

severityVars == <<indicators, severities>>

batchVars == <<items, pairs>>

serviceVars == <<projects, table, now, ret, calls>>

dependencyVars == <<dependencies>>

vars ==
    <<engineVars, pc, severityVars, batchVars, serviceVars, dependencyVars>>

\* the parts of the state that a specification does not use
EngineIdle == item = <<>> /\ today = 0 /\ result = <<>>

SeverityIdle == indicators = <<>> /\ severities = <<>>

BatchIdle == items = <<>> /\ pairs = <<>>

ServiceIdle ==
    /\ projects = <<>> /\ table = <<>> /\ now = 0
    /\ ret = <<>> /\ calls = <<>>

DependencyIdle == dependencies = <<>>

-----------------------------------------------------------------------------
(* Program constants *)

SOON_THRESHOLD_DAYS == 14

COMPLETED_RECENTLY_DAYS == 14

\* significand width of a Python float (IEEE-754 binary64)
Precision == 53

-----------------------------------------------------------------------------
(* Bounds of the model *)

\* day ordinals run over 0..MaxDay
MaxDay == 30

\* ticks of a timestamp per calendar day
TicksPerDay == 2

\* how far percent_complete may exceed 100
MaxOver == 50

\* deadlines lie within this many days of the reference date
DeadlineSpan == 1

-----------------------------------------------------------------------------
(* Optional values *)

None == <<>>

Some(v) == <<v>>

Val(o) == o[1]

-----------------------------------------------------------------------------
(* The Indicator enumeration; NoIndicator is Python's None as a result *)

COMPLETED == "Completed"
COMPLETED_RECENTLY == "Completed Recently"
NOT_STARTED == "Not Started"
STARTING_SOON == "Starting Soon!"
IN_PROGRESS == "In Progress"
FINISHING_SOON == "Finishing Soon!"
TRENDING_LATE == "Trending Late!"
LATE_START == "Late Start!!"
LATE_FINISH == "Late Finish!!"
BEYOND_DEADLINE == "Beyond Deadline!!!"

Indicator ==
    { BEYOND_DEADLINE, LATE_FINISH, LATE_START, TRENDING_LATE, FINISHING_SOON,
      STARTING_SOON, IN_PROGRESS, NOT_STARTED, COMPLETED_RECENTLY, COMPLETED }

NoIndicator == "None"

\* the exception a division by zero raises
ZeroDivisionError == "ZeroDivisionError"

-----------------------------------------------------------------------------
(* Python floats: binary64 values as sign and magnitude, the magnitude a   *)
(* fixed-point number of Limbs digits in base 2^LimbBits, least            *)
(* significant digit first, FracLimbs digits after the binary point. Every *)
(* operation computes the exact result and rounds it to Precision          *)
(* significant bits, ties to even, as IEEE-754 arithmetic does.            *)

\* bits per digit
LimbBits == 12

\* digits after the binary point
FracLimbs == 6

\* two digits before the binary point
Limbs == FracLimbs + 2

RECURSIVE Pow2(_)
Pow2(k) == IF k = 0 THEN 1 ELSE 2 * Pow2(k - 1)

Base == Pow2(LimbBits)

\* the digits of the natural number n < Base^2
NatBits(n) ==
    [j \in 1..Limbs |->
        IF j = FracLimbs + 1 THEN n % Base
        ELSE IF j = FracLimbs + 2 THEN (n \div Base) % Base
        ELSE 0]

RECURSIVE DivStep(_, _, _, _)
\* long division: k more fractional digits of r/b (r < b), most significant
\* first, appended to acc; the last element is the final remainder
DivStep(r, b, k, acc) ==
    IF k = 0 THEN Append(acc, r)
    ELSE DivStep((r * Base) % b, b, k - 1, Append(acc, (r * Base) \div b))

\* [bits |-> floor(a/b * Base^FracLimbs), sticky |-> whether a/b has more bits]
QuotBits(a, b) ==
    LET fr == DivStep(a % b, b, FracLimbs, <<>>)
        ip == NatBits(a \div b)
    IN  [bits   |-> [j \in 1..Limbs |->
                        IF j <= FracLimbs THEN fr[FracLimbs - j + 1] ELSE ip[j]],
         sticky |-> fr[FracLimbs + 1] # 0]

RECURSIVE AddStep(_, _, _, _, _)
AddStep(x, y, j, c, acc) ==
    IF j > Limbs THEN acc
    ELSE LET s == x[j] + y[j] + c
         IN  AddStep(x, y, j + 1, s \div Base, Append(acc, s % Base))

AddBits(x, y) == AddStep(x, y, 1, 0, <<>>)

RECURSIVE SubStep(_, _, _, _, _)
SubStep(x, y, j, bo, acc) ==
    IF j > Limbs THEN acc
    ELSE LET d == x[j] - y[j] - bo
         IN  SubStep(x, y, j + 1, IF d < 0 THEN 1 ELSE 0, Append(acc, d % Base))

\* x - y for x >= y
SubBits(x, y) == SubStep(x, y, 1, 0, <<>>)

RECURSIVE LessFrom(_, _, _)
LessFrom(x, y, j) ==
    IF j = 0 THEN FALSE
    ELSE IF x[j] # y[j] THEN x[j] < y[j]
    ELSE LessFrom(x, y, j - 1)

LessBits(x, y) == LessFrom(x, y, Limbs)

RECURSIVE MulStep(_, _, _, _, _)
MulStep(x, n, j, c, acc) ==
    IF j > Limbs THEN acc
    ELSE LET p == x[j] * n + c
         IN  MulStep(x, n, j + 1, p \div Base, Append(acc, p % Base))

\* x * n, n a natural number
MulNat(x, n) == MulStep(x, n, 1, 0, <<>>)

RECURSIVE TopLimb(_, _)
\* the index of the highest non-zero digit at or below j, 0 when there is none
TopLimb(x, j) ==
    IF j = 0 THEN 0 ELSE IF x[j] # 0 THEN j ELSE TopLimb(x, j - 1)

RECURSIVE BitLength(_)
\* the number of bits of the natural number d
BitLength(d) == IF d = 0 THEN 0 ELSE 1 + BitLength(d \div 2)

\* the number of bits of x up to and including its highest set bit
TopBit(x) ==
    LET j == TopLimb(x, Limbs)
    IN  IF j = 0 THEN 0 ELSE LimbBits * (j - 1) + BitLength(x[j])

\* bit i of x, the lowest bit being bit 1
Bit(x, i) == (x[((i - 1) \div LimbBits) + 1] \div Pow2((i - 1) % LimbBits)) % 2

\* x with its lowest c bits cleared
ClearLow(x, c) ==
    [j \in 1..Limbs |->
        LET k == c - LimbBits * (j - 1)
        IN  IF k <= 0 THEN x[j]
            ELSE IF k >= LimbBits THEN 0
            ELSE x[j] - (x[j] % Pow2(k))]

\* round-to-nearest, ties to even, to Precision significant bits
RoundBits(x, sticky) ==
    LET cut == TopBit(x) - Precision
    IN  IF cut <= 0 THEN x
        ELSE LET low   == sticky \/ ClearLow(x, cut - 1) # x
                 up    == Bit(x, cut) = 1 /\ (low \/ Bit(x, cut + 1) = 1)
                 trunc == ClearLow(x, cut)
                 unit  == [j \in 1..Limbs |->
                              IF j = (cut \div LimbBits) + 1
                              THEN Pow2(cut % LimbBits) ELSE 0]
             IN  IF up THEN AddBits(trunc, unit) ELSE trunc

Abs(n) == IF n < 0 THEN -n ELSE n

Float(neg, mag) == [exc |-> "", neg |-> neg, mag |-> mag]

Raised(e) == [exc |-> e]

\* a / b on Python ints: the correctly rounded quotient, or ZeroDivisionError
TrueDiv(a, b) ==
    IF b = 0 THEN Raised(ZeroDivisionError)
    ELSE LET q == QuotBits(Abs(a), Abs(b))
         IN  Float((a < 0) # (b < 0) /\ a # 0, RoundBits(q.bits, q.sticky))

\* x * n for a float x and a natural number n
FloatMul(x, n) ==
    IF x.exc # "" THEN x
    ELSE Float(x.neg, RoundBits(MulNat(x.mag, n), FALSE))

\* x - n for a float x and a natural number n
FloatSub(x, n) ==
    IF x.exc # "" THEN x
    ELSE LET y == NatBits(n)
         IN  IF x.neg THEN Float(TRUE, RoundBits(AddBits(x.mag, y), FALSE))
             ELSE IF LessBits(x.mag, y)
                  THEN Float(TRUE, RoundBits(SubBits(y, x.mag), FALSE))
                  ELSE Float(FALSE, RoundBits(SubBits(x.mag, y), FALSE))

\* p < x for an int p and a float x (Python compares the exact values)
IntLessFloat(p, x) ==
    IF p >= 0 THEN ~x.neg /\ LessBits(NatBits(p), x.mag)
    ELSE ~x.neg \/ LessBits(x.mag, NatBits(-p))

-----------------------------------------------------------------------------
(* The engine *)

\* date - date, in days (timedelta.days)
days(a, b) == a - b

\* datetime.date(): the calendar day of a timestamp
date(dt) == dt \div TicksPerDay

\* Item.has_dates with "or" for "and"
has_dates_either(it) == it.start_date # None \/ it.finish_date # None

\* Item.has_dates
has_dates(it) == it.start_date # None /\ it.finish_date # None

\* a call's outcome: the value it returns, or the exception it raises
Return(v) == [exc |-> "", value |-> v]

\* _is_trending_late without its guard on total_days
is_trending_late_unguarded(it, t) ==
    IF it.start_date = None \/ it.finish_date = None THEN Return(FALSE)
    ELSE IF Val(it.start_date) > t THEN Return(FALSE)
    ELSE IF it.percent_complete >= 100 THEN Return(FALSE)
    ELSE LET total_days == days(Val(it.finish_date), Val(it.start_date))
             elapsed == days(t, Val(it.start_date))
             elapsed_days == IF elapsed < 0 THEN 0 ELSE elapsed
             expected_progress ==
                 FloatMul(TrueDiv(elapsed_days, total_days), 100)
             limit == FloatSub(expected_progress, 5)
         IN  IF limit.exc # "" THEN Raised(limit.exc)
             ELSE Return(IntLessFloat(it.percent_complete, limit))

\* _is_trending_late
is_trending_late(it, t) ==
    IF it.start_date = None \/ it.finish_date = None THEN Return(FALSE)
    ELSE IF Val(it.start_date) > t THEN Return(FALSE)
    ELSE IF it.percent_complete >= 100 THEN Return(FALSE)
    ELSE LET total_days == days(Val(it.finish_date), Val(it.start_date))
         IN  IF total_days <= 0 THEN Return(FALSE)
             ELSE LET elapsed == days(t, Val(it.start_date))
                      elapsed_days == IF elapsed < 0 THEN 0 ELSE elapsed
                      expected_progress ==
                          FloatMul(TrueDiv(elapsed_days, total_days), 100)
                      limit == FloatSub(expected_progress, 5)
                  IN  IF limit.exc # "" THEN Raised(limit.exc)
                      ELSE Return(IntLessFloat(it.percent_complete, limit))

\* rule 1 tried after rule 2: a completed draft is not treated as a draft
rule_draft_after_completed(it) == it.draft /\ ~(it.percent_complete >= 100)

\* RULE 1: draft items have no indicator
rule_draft(it) == it.draft

\* rule 2 with == for >=
rule_completed_exact(it) == it.percent_complete = 100

\* rule 2 trusting the indicator stored with the item
rule_completed_or_stored(it) ==
    it.percent_complete >= 100 \/ it.indicator = COMPLETED

\* RULE 2: completed items
rule_completed(it) == it.percent_complete >= 100

\* the inner test of rule 2 with < for <=
completed_recently_strict(it, t) ==
    /\ it.updated_at # None
    /\ days(t, date(Val(it.updated_at))) < COMPLETED_RECENTLY_DAYS

\* RULE 2, inner test: completed within the threshold
completed_recently(it, t) ==
    /\ it.updated_at # None
    /\ days(t, date(Val(it.updated_at))) <= COMPLETED_RECENTLY_DAYS

\* rule 3 with <= for <
rule_beyond_deadline_inclusive(it, t) ==
    it.deadline # None /\ Val(it.deadline) <= t

\* RULE 3: beyond deadline
rule_beyond_deadline(it, t) == it.deadline # None /\ Val(it.deadline) < t

\* rule 4 with <= for <
rule_late_finish_inclusive(it, t) ==
    it.finish_date # None /\ Val(it.finish_date) <= t

\* rule 4 for the two weeks after the finish date only
rule_late_finish_for_two_weeks(it, t) ==
    /\ it.finish_date # None
    /\ Val(it.finish_date) < t
    /\ days(t, Val(it.finish_date)) <= SOON_THRESHOLD_DAYS

\* RULE 4: late finish
rule_late_finish(it, t) == it.finish_date # None /\ Val(it.finish_date) < t

\* rule 5 without its test of percent_complete
rule_late_start_any_percent(it, t) ==
    it.start_date # None /\ Val(it.start_date) < t

\* RULE 5: late start
rule_late_start(it, t) ==
    /\ it.start_date # None
    /\ Val(it.start_date) < t
    /\ it.percent_complete = 0

\* rule 7 with < for <= at the threshold
rule_finishing_soon_exclusive(it, t) ==
    /\ it.finish_date # None
    /\ 0 <= days(Val(it.finish_date), t)
    /\ days(Val(it.finish_date), t) < SOON_THRESHOLD_DAYS

\* RULE 7: finishing soon
rule_finishing_soon(it, t) ==
    /\ it.finish_date # None
    /\ 0 <= days(Val(it.finish_date), t)
    /\ days(Val(it.finish_date), t) <= SOON_THRESHOLD_DAYS

\* rule 8 with < for <= at the reference date
rule_starting_soon_exclusive(it, t) ==
    /\ it.start_date # None
    /\ it.percent_complete = 0
    /\ 0 < days(Val(it.start_date), t)
    /\ days(Val(it.start_date), t) <= SOON_THRESHOLD_DAYS

\* RULE 8: starting soon
rule_starting_soon(it, t) ==
    /\ it.start_date # None
    /\ it.percent_complete = 0
    /\ 0 <= days(Val(it.start_date), t)
    /\ days(Val(it.start_date), t) <= SOON_THRESHOLD_DAYS

\* rule 9 with <= for < at 0
rule_in_progress_from_zero(it) ==
    0 <= it.percent_complete /\ it.percent_complete < 100

\* RULE 9: in progress
rule_in_progress(it) == 0 < it.percent_complete /\ it.percent_complete < 100

\* rule 10 with <= for == on percent_complete
rule_not_started_nonpositive(it) == has_dates(it) /\ it.percent_complete <= 0

\* RULE 10: not started
rule_not_started(it) == has_dates(it) /\ it.percent_complete = 0

\* calculate_indicator(item, today): the outcome is an Indicator or
\* NoIndicator, or the exception the call raises
calculate_indicator(it, t) ==
    IF rule_draft(it) THEN Return(NoIndicator)
    ELSE IF rule_completed(it)
    THEN IF completed_recently(it, t) THEN Return(COMPLETED_RECENTLY)
         ELSE Return(COMPLETED)
    ELSE IF rule_beyond_deadline(it, t) THEN Return(BEYOND_DEADLINE)
    ELSE IF rule_late_finish(it, t) THEN Return(LATE_FINISH)
    ELSE IF rule_late_start(it, t) THEN Return(LATE_START)
    ELSE LET late == is_trending_late(it, t)
         IN  IF late.exc # "" THEN late
             ELSE IF late.value THEN Return(TRENDING_LATE)
             ELSE IF rule_finishing_soon(it, t) THEN Return(FINISHING_SOON)
             ELSE IF rule_starting_soon(it, t) THEN Return(STARTING_SOON)
             ELSE IF rule_in_progress(it) THEN Return(IN_PROGRESS)
             ELSE IF rule_not_started(it) THEN Return(NOT_STARTED)
             ELSE Return(NoIndicator)

-----------------------------------------------------------------------------
(* The inputs: every combination of the fields calculate_indicator reads *)

Days == 0..MaxDay

\* the reference dates
Todays == {MaxDay \div 2, MaxDay \div 2 + 1}

OptDays == {None} \cup {Some(d) : d \in Days}

\* deadlines: absent, or within DeadlineSpan days of the reference date
Deadlines(t) == {None} \cup {Some(d) : d \in (t - DeadlineSpan)..(t + DeadlineSpan)}

\* last-update timestamps: absent, or any tick of the day the
\* completed-recently threshold falls on, of the day before or the day after
Timestamps(t) ==
    {None} \cup
    {Some(d * TicksPerDay + k) :
        d \in (t - COMPLETED_RECENTLY_DAYS - 1)..(t - COMPLETED_RECENTLY_DAYS + 1),
        k \in 0..(TicksPerDay - 1)}

Percents == {-1, 0, 1, 50, 99, 100, 100 + MaxOver}

Items(t) ==
    [draft : BOOLEAN, percent_complete : Percents,
     start_date : OptDays, finish_date : OptDays,
     deadline : Deadlines(t), updated_at : Timestamps(t)]

-----------------------------------------------------------------------------
(* The state machine: an item and a reference date are given, and          *)
(* calculate_indicator is called on them once.                             *)

Init ==
    /\ today \in Todays
    /\ item \in Items(today)
    /\ result = Return("")
    /\ pc = "call"
    /\ SeverityIdle
    /\ BatchIdle
    /\ DependencyIdle
    /\ ServiceIdle

\* indicator = calculate_indicator(item, today)
Calculate ==
    /\ pc = "call"
    /\ result' = calculate_indicator(item, today)
    /\ pc' = "done"
    /\ UNCHANGED <<item, today, severityVars, batchVars, serviceVars,
                 dependencyVars>>

Next == Calculate

Spec == Init /\ [][Next]_vars

-----------------------------------------------------------------------------
(* Properties of calculate_indicator. Each is stated on the fields of the  *)
(* item and on the outcome of the call, in the states where the call has   *)
(* returned.                                                               *)

Done == pc = "done"

Returned(v) == result = Return(v)

Has(o) == o # None

DeadlinePassed == Has(item.deadline) /\ Val(item.deadline) < today

FinishPassed == Has(item.finish_date) /\ Val(item.finish_date) < today

StartPassed == Has(item.start_date) /\ Val(item.start_date) < today

\* days from the reference date to the finish date, to the start date
DaysToFinish == Val(item.finish_date) - today

DaysToStart == Val(item.start_date) - today

\* days from the calendar day of the last update to the reference date
DaysSinceUpdate == today - (Val(item.updated_at) \div TicksPerDay)

\* C1: calculate_indicator is total: for every item and reference date it
\* returns one of the ten indicators or None and raises nothing.
C1_Total ==
    Done => result.exc = "" /\ result.value \in Indicator \cup {NoIndicator}

\* the call has returned on an unfinished item whose start and finish dates
\* coincide on or before the reference date, past rules 1-5
C1_Witness ==
    /\ Done
    /\ ~item.draft /\ item.percent_complete = -1
    /\ ~DeadlinePassed
    /\ Has(item.start_date) /\ item.finish_date = item.start_date
    /\ Val(item.start_date) = today
    /\ result.exc = ""

\* C2: a draft item gets None, whatever its other fields are.
C2_DraftIsNone == Done /\ item.draft => Returned(NoIndicator)

C2_Witness ==
    /\ Done /\ item.draft
    /\ DeadlinePassed /\ FinishPassed /\ item.percent_complete >= 100
    /\ Returned(NoIndicator)

\* C3: a non-draft item with percent_complete >= 100 gets Completed or
\* Completed Recently whatever its dates are, and only such items get them.
C3_CompletedOnly ==
    Done =>
        ((~item.draft /\ item.percent_complete >= 100)
            <=> (Returned(COMPLETED) \/ Returned(COMPLETED_RECENTLY)))

C3_Witness ==
    /\ Done /\ ~item.draft /\ item.percent_complete > 100
    /\ DeadlinePassed /\ FinishPassed
    /\ Returned(COMPLETED)

\* C4: for a non-draft item with percent_complete >= 100 the result is
\* Completed Recently exactly when updated_at is present and its calendar day
\* is at most 14 days before the reference date, and Completed otherwise.
C4_RecentlyWithin14 ==
    Done /\ ~item.draft /\ item.percent_complete >= 100 =>
        IF Has(item.updated_at) /\ DaysSinceUpdate <= 14
        THEN Returned(COMPLETED_RECENTLY)
        ELSE Returned(COMPLETED)

\* updated in the last tick of the day 14 days back: still recent
C4_Witness ==
    /\ Done /\ ~item.draft /\ item.percent_complete >= 100
    /\ Has(item.updated_at)
    /\ Val(item.updated_at) = (today - 14) * TicksPerDay + (TicksPerDay - 1)
    /\ Returned(COMPLETED_RECENTLY)

\* C5: for a non-draft item with percent_complete < 100 the result is Beyond
\* Deadline exactly when the deadline is present and strictly before the
\* reference date, whatever the start and finish dates are.
C5_BeyondDeadline ==
    Done /\ ~item.draft /\ item.percent_complete < 100 =>
        (Returned(BEYOND_DEADLINE) <=> DeadlinePassed)

C5_Witness ==
    /\ Done /\ ~item.draft /\ item.percent_complete < 100
    /\ DeadlinePassed /\ FinishPassed
    /\ Returned(BEYOND_DEADLINE)

\* C6: for a non-draft item with percent_complete < 100 whose deadline is
\* absent or not before the reference date, the result is Late Finish exactly
\* when the finish date is present and strictly before the reference date.
C6_LateFinish ==
    Done /\ ~item.draft /\ item.percent_complete < 100 /\ ~DeadlinePassed =>
        (Returned(LATE_FINISH) <=> FinishPassed)

C6_Witness ==
    /\ Done /\ ~item.draft /\ item.percent_complete = 0 /\ ~DeadlinePassed
    /\ StartPassed /\ FinishPassed
    /\ Returned(LATE_FINISH)

\* C7: for a non-draft item on which neither the Beyond Deadline nor the Late
\* Finish condition holds, the result is Late Start exactly when the start
\* date is present and strictly before the reference date and
\* percent_complete is 0; no item with a non-zero percent_complete gets it.
C7_LateStart ==
    Done =>
        /\ (~item.draft /\ ~DeadlinePassed /\ ~FinishPassed =>
               (Returned(LATE_START)
                   <=> (StartPassed /\ item.percent_complete = 0)))
        /\ (Returned(LATE_START) => item.percent_complete = 0)

\* at 0% half way through the range the item is also behind schedule
C7_Witness ==
    /\ Done /\ ~item.draft /\ ~DeadlinePassed /\ item.percent_complete = 0
    /\ Has(item.start_date) /\ Has(item.finish_date)
    /\ today - Val(item.start_date) = 10 /\ DaysToFinish = 10
    /\ Returned(LATE_START)

\* rules 1-5 (draft, completed, Beyond Deadline, Late Finish, Late Start) do
\* not match the item
PastRule5 ==
    /\ ~item.draft /\ item.percent_complete < 100
    /\ ~DeadlinePassed /\ ~FinishPassed
    /\ ~(StartPassed /\ item.percent_complete = 0)

TotalDays == Val(item.finish_date) - Val(item.start_date)

ElapsedDays ==
    IF today - Val(item.start_date) < 0 THEN 0 ELSE today - Val(item.start_date)

\* the trending-late condition in exact integer arithmetic: the item lags
\* the linear schedule by more than 5 points
BehindByMoreThan5 ==
    /\ Has(item.start_date) /\ Has(item.finish_date)
    /\ Val(item.start_date) <= today
    /\ TotalDays > 0
    /\ item.percent_complete * TotalDays < 100 * ElapsedDays - 5 * TotalDays

\* C8: when rules 1-5 do not match, the result is Trending Late exactly when
\* both dates are present, the start date is not after the reference date,
\* the range is longer than zero days and percent_complete * totalDays <
\* 100 * elapsedDays - 5 * totalDays; an item exactly 5 points behind is not
\* Trending Late.
C8_TrendingLateExact ==
    Done /\ PastRule5 => (Returned(TRENDING_LATE) <=> BehindByMoreThan5)

\* rule 6 matches the item: _is_trending_late returns True
TrendingLateHolds == is_trending_late(item, today) = Return(TRUE)

\* rules 1-6 do not match the item
PastRule6 == PastRule5 /\ ~TrendingLateHolds

FinishesSoon ==
    Has(item.finish_date) /\ 0 <= DaysToFinish /\ DaysToFinish <= 14

\* C9: when rules 1-6 do not match, the result is Finishing Soon exactly when
\* the finish date is present and 0 to 14 days after the reference date, both
\* bounds included, whatever percent_complete and the start date are.
C9_FinishingSoon ==
    Done /\ PastRule6 => (Returned(FINISHING_SOON) <=> FinishesSoon)

\* start and finish dates coincide inside the window, at 0%
C9_Witness ==
    /\ Done /\ PastRule6 /\ item.percent_complete = 0
    /\ Has(item.start_date) /\ item.finish_date = item.start_date
    /\ DaysToFinish = 14
    /\ Returned(FINISHING_SOON)

\* C10: when rules 1-7 do not match, the result is Starting Soon exactly when
\* the start date is present, percent_complete is 0 and the start date is 0 to
\* 14 days after the reference date, both bounds included; it applies with no
\* finish date, and never to a non-zero percent_complete.
C10_StartingSoon ==
    Done =>
        /\ (PastRule6 /\ ~FinishesSoon =>
               (Returned(STARTING_SOON)
                   <=> /\ Has(item.start_date)
                       /\ item.percent_complete = 0
                       /\ 0 <= DaysToStart /\ DaysToStart <= 14))
        /\ (Returned(STARTING_SOON) => item.percent_complete = 0)

\* no finish date, start on the reference date
C10_Witness ==
    /\ Done /\ PastRule6 /\ item.finish_date = None
    /\ Has(item.start_date) /\ DaysToStart = 0
    /\ Returned(STARTING_SOON)

StartsSoon ==
    /\ Has(item.start_date) /\ item.percent_complete = 0
    /\ 0 <= DaysToStart /\ DaysToStart <= 14

\* rules 1-8 do not match the item
PastRule8 == PastRule6 /\ ~FinishesSoon /\ ~StartsSoon

\* C11: when rules 1-8 do not match, the result is In Progress exactly when
\* 0 < percent_complete < 100; a non-draft item at 1..99% with no dates, or
\* with only a deadline that has not passed, gets In Progress.
C11_InProgress ==
    Done =>
        /\ (PastRule8 =>
               (Returned(IN_PROGRESS)
                   <=> (0 < item.percent_complete /\ item.percent_complete < 100)))
        /\ (/\ ~item.draft
            /\ 1 <= item.percent_complete /\ item.percent_complete <= 99
            /\ item.start_date = None /\ item.finish_date = None
            /\ ~DeadlinePassed
            => Returned(IN_PROGRESS))

\* at 1%, with only a deadline, which falls on the reference date
C11_Witness ==
    /\ Done /\ ~item.draft /\ item.percent_complete = 1
    /\ item.start_date = None /\ item.finish_date = None
    /\ item.deadline = Some(today)
    /\ Returned(IN_PROGRESS)

\* rules 1-9 do not match the item
PastRule9 ==
    PastRule8 /\ ~(0 < item.percent_complete /\ item.percent_complete < 100)

\* C12: when rules 1-9 do not match, the result is Not Started exactly when
\* start and finish dates are both present and percent_complete is 0; at 0%
\* with only one of the two dates, more than 14 days ahead, it is not.
C12_NotStarted ==
    Done /\ PastRule9 =>
        (Returned(NOT_STARTED)
            <=> /\ Has(item.start_date) /\ Has(item.finish_date)
                /\ item.percent_complete = 0)

\* at 0% with only a finish date, 15 days ahead: no indicator
C12_Witness ==
    /\ Done /\ PastRule9 /\ item.percent_complete = 0
    /\ item.start_date = None
    /\ Has(item.finish_date) /\ DaysToFinish = 15
    /\ Returned(NoIndicator)

\* some rule among 2-10 matches the item
SomeRuleMatches ==
    \/ item.percent_complete >= 100
    \/ DeadlinePassed
    \/ FinishPassed
    \/ (StartPassed /\ item.percent_complete = 0)
    \/ TrendingLateHolds
    \/ FinishesSoon
    \/ StartsSoon
    \/ (0 < item.percent_complete /\ item.percent_complete < 100)
    \/ (/\ Has(item.start_date) /\ Has(item.finish_date)
        /\ item.percent_complete = 0)

\* C13: a non-draft item gets None exactly when none of rules 2-10 matches:
\* at 0% with no date at all, and at a negative percent_complete with no
\* dates or with dates more than 14 days ahead.
C13_NoneWhenNoRule ==
    Done /\ ~item.draft =>
        /\ (Returned(NoIndicator) <=> ~SomeRuleMatches)
        /\ (/\ item.percent_complete <= 0
            /\ item.start_date = None /\ item.finish_date = None
            /\ item.deadline = None
            => Returned(NoIndicator))
        /\ (/\ item.percent_complete < 0
            /\ ~DeadlinePassed
            /\ (Has(item.start_date) => DaysToStart > 14)
            /\ (Has(item.finish_date) => DaysToFinish > 14)
            => Returned(NoIndicator))

\* negative percent_complete, both dates 15 days ahead
C13_Witness ==
    /\ Done /\ ~item.draft /\ item.percent_complete < 0
    /\ Has(item.start_date) /\ DaysToStart = 15
    /\ Has(item.finish_date) /\ DaysToFinish = 15
    /\ Returned(NoIndicator)

-----------------------------------------------------------------------------
(* Severity ranking: get_indicator_severity, called on a pair of           *)
(* indicators (None included).                                             *)

\* In Progress and Starting Soon ranked in the order their rules are tried
get_indicator_severity_rule_order(indicator) ==
    CASE indicator = NoIndicator -> 0
      [] indicator = COMPLETED -> 1
      [] indicator = COMPLETED_RECENTLY -> 2
      [] indicator = NOT_STARTED -> 3
      [] indicator = STARTING_SOON -> 5
      [] indicator = IN_PROGRESS -> 4
      [] indicator = FINISHING_SOON -> 6
      [] indicator = TRENDING_LATE -> 7
      [] indicator = LATE_START -> 8
      [] indicator = LATE_FINISH -> 9
      [] indicator = BEYOND_DEADLINE -> 10
      [] OTHER -> 0

\* Starting Soon and Finishing Soon in each other's place
get_indicator_severity_soon_swapped(indicator) ==
    CASE indicator = NoIndicator -> 0
      [] indicator = COMPLETED -> 1
      [] indicator = COMPLETED_RECENTLY -> 2
      [] indicator = NOT_STARTED -> 3
      [] indicator = STARTING_SOON -> 6
      [] indicator = IN_PROGRESS -> 5
      [] indicator = FINISHING_SOON -> 4
      [] indicator = TRENDING_LATE -> 7
      [] indicator = LATE_START -> 8
      [] indicator = LATE_FINISH -> 9
      [] indicator = BEYOND_DEADLINE -> 10
      [] OTHER -> 0

\* severity_map.get(indicator, 0)
get_indicator_severity(indicator) ==
    CASE indicator = NoIndicator -> 0
      [] indicator = COMPLETED -> 1
      [] indicator = COMPLETED_RECENTLY -> 2
      [] indicator = NOT_STARTED -> 3
      [] indicator = STARTING_SOON -> 4
      [] indicator = IN_PROGRESS -> 5
      [] indicator = FINISHING_SOON -> 6
      [] indicator = TRENDING_LATE -> 7
      [] indicator = LATE_START -> 8
      [] indicator = LATE_FINISH -> 9
      [] indicator = BEYOND_DEADLINE -> 10
      [] OTHER -> 0

\* Optional[Indicator]
OptIndicator == {NoIndicator} \cup Indicator

InitSeverity ==
    /\ indicators \in OptIndicator \X OptIndicator
    /\ severities = <<>>
    /\ pc = "call"
    /\ EngineIdle
    /\ BatchIdle
    /\ DependencyIdle
    /\ ServiceIdle

\* get_indicator_severity applied to each of the two indicators
Rank ==
    /\ pc = "call"
    /\ severities' = <<get_indicator_severity(indicators[1]),
                       get_indicator_severity(indicators[2])>>
    /\ pc' = "done"
    /\ UNCHANGED <<indicators, engineVars, batchVars, serviceVars,
                 dependencyVars>>

NextSeverity == Rank

SpecSeverity == InitSeverity /\ [][NextSeverity]_vars

\* the ten indicators from least to most severe
SeverityOrder ==
    <<COMPLETED, COMPLETED_RECENTLY, NOT_STARTED, STARTING_SOON, IN_PROGRESS,
      FINISHING_SOON, TRENDING_LATE, LATE_START, LATE_FINISH, BEYOND_DEADLINE>>

-----------------------------------------------------------------------------
(* Batch calculation: calculate_indicators_batch, called with an explicit  *)
(* reference date on a list of stored items. A stored item carries, next   *)
(* to the six fields the engine reads, fields the engine has no use for:   *)
(* its id and the indicator stored with it stand for them.                 *)

\* longest list the batch is called on, and number of item ids
MaxBatch == 2

\* draft items left out of the result
calculate_indicators_batch_published(its, t) ==
    LET published == SelectSeq(its, LAMBDA it : ~it.draft)
    IN  Return([i \in 1..Len(published) |->
                  <<published[i], calculate_indicator(published[i], t).value>>])

\* [(item, calculate_indicator(item, today)) for item in items]
calculate_indicators_batch(its, t) ==
    LET outcome == [i \in 1..Len(its) |-> calculate_indicator(its[i], t)]
        raising == {i \in 1..Len(its) : outcome[i].exc # ""}
    IN  IF raising # {}
        THEN outcome[CHOOSE i \in raising : \A j \in raising : i <= j]
        ELSE Return([i \in 1..Len(its) |-> <<its[i], outcome[i].value>>])

StoredItems(t) ==
    [id : 1..MaxBatch, indicator : {NoIndicator, COMPLETED},
     draft : BOOLEAN, percent_complete : {0, 100},
     start_date : {None}, finish_date : {None, Some(t - 1)},
     deadline : {None}, updated_at : {None}]

\* the lists of stored items of length 0..MaxBatch
Lists(S) == UNION {[1..n -> S] : n \in 0..MaxBatch}

InitBatch ==
    /\ today \in Todays
    /\ items \in Lists(StoredItems(today))
    /\ pairs = <<>>
    /\ pc = "call"
    /\ item = <<>>
    /\ result = <<>>
    /\ SeverityIdle
    /\ ServiceIdle
    /\ DependencyIdle

\* pairs = calculate_indicators_batch(items, today)
Batch ==
    /\ pc = "call"
    /\ pairs' = calculate_indicators_batch(items, today)
    /\ pc' = "done"
    /\ UNCHANGED <<items, engineVars, severityVars, serviceVars,
                   dependencyVars>>

NextBatch == Batch

SpecBatch == InitBatch /\ [][NextBatch]_vars

\* C15: calculate_indicators_batch over N items and a reference date returns
\* exactly N pairs in input order, the i-th pair being the i-th input item
\* with calculate_indicator of that item on that date; no item is filtered
\* out (a draft item appears with None) and the indicator of an item is that
\* of the item called alone, whatever else is in the list.
C15_Batch ==
    Done =>
        /\ pairs.exc = ""
        /\ Len(pairs.value) = Len(items)
        /\ \A i \in 1..Len(items) :
              /\ pairs.value[i][1] = items[i]
              /\ Return(pairs.value[i][2]) = calculate_indicator(items[i], today)
              /\ (items[i].draft => pairs.value[i][2] = NoIndicator)

\* a late item followed by a draft item: two pairs, in that order
C15_Witness ==
    /\ Done
    /\ Len(items) = 2
    /\ ~items[1].draft /\ items[1].percent_complete = 0
    /\ Has(items[1].finish_date)
    /\ items[2].draft
    /\ pairs.exc = ""
    /\ Len(pairs.value) = 2
    /\ pairs.value[1] = <<items[1], LATE_FINISH>>
    /\ pairs.value[2] = <<items[2], NoIndicator>>

\* the two items agree on the six fields the engine reads
SameInputs(a, b) ==
    /\ a.draft = b.draft
    /\ a.percent_complete = b.percent_complete
    /\ a.start_date = b.start_date
    /\ a.finish_date = b.finish_date
    /\ a.deadline = b.deadline
    /\ a.updated_at = b.updated_at

\* C16: with an explicit reference date calculate_indicator is a function of
\* draft, percent_complete, start_date, finish_date, deadline, updated_at
\* and the date: items that agree on these six fields get the same result on
\* the same date whatever their other fields are, a repeated call on the same
\* item included, and the call changes no field of an item.
C16_Pure ==
    [][pc = "call" /\ pc' = "done" =>
        /\ items' = items
        /\ pairs'.exc = ""
        /\ \A i, j \in 1..Len(items) :
              /\ pairs'.value[i][1] = items[i]
              /\ (SameInputs(items[i], items[j])
                    => pairs'.value[i][2] = pairs'.value[j][2])]_vars

\* two items with different ids and stored indicators, the same six fields
C16_Witness ==
    /\ Done
    /\ Len(items) = 2
    /\ items[1].id # items[2].id
    /\ items[1].indicator = COMPLETED /\ items[2].indicator = NoIndicator
    /\ SameInputs(items[1], items[2])
    /\ items[1].percent_complete = 0 /\ Has(items[1].finish_date)
    /\ ~items[1].draft
    /\ pairs.exc = ""
    /\ pairs.value[1][2] = LATE_FINISH /\ pairs.value[2][2] = LATE_FINISH

-----------------------------------------------------------------------------
(* Precedence and severity: calculate_indicator against                    *)
(* get_indicator_severity, under Spec.                                     *)

RecentlyUpdated == completed_recently(item, today)

\* the condition of the rule that yields the indicator holds for the item
RuleHolds(indicator) ==
    CASE indicator = COMPLETED ->
            item.percent_complete >= 100 /\ ~RecentlyUpdated
      [] indicator = COMPLETED_RECENTLY ->
            item.percent_complete >= 100 /\ RecentlyUpdated
      [] indicator = BEYOND_DEADLINE -> DeadlinePassed
      [] indicator = LATE_FINISH -> FinishPassed
      [] indicator = LATE_START -> StartPassed /\ item.percent_complete = 0
      [] indicator = TRENDING_LATE -> TrendingLateHolds
      [] indicator = FINISHING_SOON -> FinishesSoon
      [] indicator = STARTING_SOON -> StartsSoon
      [] indicator = IN_PROGRESS ->
            0 < item.percent_complete /\ item.percent_complete < 100
      [] indicator = NOT_STARTED ->
            /\ Has(item.start_date) /\ Has(item.finish_date)
            /\ item.percent_complete = 0

\* the returned indicator is the most severe of those whose rule holds
MostSevereReturned ==
    /\ result.exc = ""
    /\ (result.value \in Indicator => RuleHolds(result.value))
    /\ \A indicator \in Indicator :
          RuleHolds(indicator) =>
              get_indicator_severity(indicator)
                  <= get_indicator_severity(result.value)

\* C17: higher severity indicators take precedence over lower ones: for every
\* item and reference date the returned indicator is the one with the highest
\* get_indicator_severity among the indicators whose own rule condition holds.
C17_HighestSeverityWins == Done => MostSevereReturned

-----------------------------------------------------------------------------
(* The repositories (repositories/project_repository.py,                   *)
(* repositories/item_repository.py): each method is one SQL statement on   *)
(* the projects or the items table. A soft-deleted row keeps its place and *)
(* is skipped by every statement (deleted_at IS NULL).                     *)

\* number of projects
MaxProjects == 2

\* number of rows the items table may hold
MaxItems == 2

\* number of times the clock jumps ahead
MaxJumps == 1

ValueError == "ValueError"

\* x = v, then Op(x): v is evaluated once, as an assignment is
Let(v, Op(_)) == CHOOSE r \in {Op(x) : x \in {v}} : TRUE

\* ProjectRepository.get_by_id
project_get_by_id(projs, project_id) ==
    IF project_id \in DOMAIN projs /\ ~projs[project_id].deleted
    THEN Some(projs[project_id])
    ELSE None

\* the number handed out, the counter left as it was
increment_item_num_not_stored(projs, project_id) ==
    IF project_id \in DOMAIN projs /\ ~projs[project_id].deleted
    THEN [exc |-> "", value |-> projs[project_id].next_item_num,
          projects |-> projs]
    ELSE [exc |-> ValueError, value |-> 0, projects |-> projs]

\* UPDATE projects SET next_item_num = next_item_num + 1
\* WHERE id = $1 AND deleted_at IS NULL RETURNING next_item_num - 1
increment_item_num(projs, project_id) ==
    IF project_id \in DOMAIN projs /\ ~projs[project_id].deleted
    THEN LET updated ==
                 [projs EXCEPT ![project_id].next_item_num = @ + 1]
         IN  [exc |-> "", value |-> updated[project_id].next_item_num - 1,
              projects |-> updated]
    ELSE [exc |-> ValueError, value |-> 0, projects |-> projs]

\* UPDATE projects SET indicators_updated = now()
\* WHERE id = $1 AND deleted_at IS NULL
update_indicators_timestamp(projs, project_id, t) ==
    IF project_id \in DOMAIN projs /\ ~projs[project_id].deleted
    THEN [projs EXCEPT ![project_id].indicators_updated = Some(t)]
    ELSE projs

\* ProjectRepository.soft_delete
project_soft_delete(projs, project_id) ==
    IF project_id \in DOMAIN projs /\ ~projs[project_id].deleted
    THEN [projs EXCEPT ![project_id].deleted = TRUE]
    ELSE projs

\* ItemRepository.get_by_id
item_get_by_id(tbl, item_id) ==
    IF item_id \in 1..Len(tbl) /\ ~tbl[item_id].deleted
    THEN Some(tbl[item_id])
    ELSE None

\* the rows with the given ids, ORDER BY item_num ASC
RECURSIVE order_by_item_num(_, _)
order_by_item_num(tbl, ids) ==
    IF ids = {} THEN <<>>
    ELSE LET first ==
                 CHOOSE i \in ids : \A j \in ids :
                     \/ tbl[i].item_num < tbl[j].item_num
                     \/ (tbl[i].item_num = tbl[j].item_num /\ i <= j)
         IN  <<tbl[first]>> \o order_by_item_num(tbl, ids \ {first})

\* ItemRepository.get_by_project_id(project_id, include_drafts=True)
get_by_project_id(tbl, project_id) ==
    order_by_item_num(tbl,
        {i \in 1..Len(tbl) :
            tbl[i].project_id = project_id /\ ~tbl[i].deleted})

\* ItemRepository.create: the new row gets the next id and, from the
\* database, its updated_at
create(tbl, project_id, item_num, fields, indicator, t) ==
    LET row == [id |-> Len(tbl) + 1, project_id |-> project_id,
                item_num |-> item_num, draft |-> fields.draft,
                percent_complete |-> fields.percent_complete,
                start_date |-> fields.start_date,
                finish_date |-> fields.finish_date,
                deadline |-> fields.deadline,
                indicator |-> indicator, updated_at |-> Some(t),
                deleted |-> FALSE]
    IN  [table |-> Append(tbl, row), item |-> row]

\* ItemRepository.update: the fields given (not None) are set, and with
\* them updated_at; with no field given the row is only read
update(tbl, item_id, given, t) ==
    IF /\ given.draft = None /\ given.percent_complete = None
       /\ given.start_date = None /\ given.finish_date = None
       /\ given.deadline = None
    THEN [table |-> tbl, item |-> item_get_by_id(tbl, item_id)]
    ELSE IF item_get_by_id(tbl, item_id) = None
    THEN [table |-> tbl, item |-> None]
    ELSE LET old == tbl[item_id]
             row == [old EXCEPT
                       !.draft = IF given.draft # None
                                 THEN Val(given.draft) ELSE @,
                       !.percent_complete =
                           IF given.percent_complete # None
                           THEN Val(given.percent_complete) ELSE @,
                       !.start_date = IF given.start_date # None
                                      THEN given.start_date ELSE @,
                       !.finish_date = IF given.finish_date # None
                                       THEN given.finish_date ELSE @,
                       !.deadline = IF given.deadline # None
                                    THEN given.deadline ELSE @,
                       !.updated_at = Some(t)]
         IN  [table |-> [tbl EXCEPT ![item_id] = row], item |-> Some(row)]

\* UPDATE items SET indicator = $1, updated_at = now()
\* WHERE id = $2 AND deleted_at IS NULL
update_indicator(tbl, item_id, indicator, t) ==
    IF item_get_by_id(tbl, item_id) = None
    THEN [table |-> tbl, updated |-> FALSE]
    ELSE [table |-> [tbl EXCEPT ![item_id].indicator = indicator,
                                ![item_id].updated_at = Some(t)],
          updated |-> TRUE]

\* ItemRepository.batch_update_indicators: update_indicator for each
\* (item_id, indicator) of the list, counting those that updated a row
RECURSIVE batch_update_indicators(_, _, _)
batch_update_indicators(tbl, updates, t) ==
    IF updates = <<>> THEN [table |-> tbl, count |-> 0]
    ELSE Let(update_indicator(tbl, updates[1][1], updates[1][2], t),
             LAMBDA head :
         Let(batch_update_indicators(head.table, Tail(updates), t),
             LAMBDA rest :
         [table |-> rest.table,
          count |-> rest.count + (IF head.updated THEN 1 ELSE 0)]))

\* ItemRepository.soft_delete
soft_delete(tbl, item_id, t) ==
    IF item_get_by_id(tbl, item_id) = None
    THEN [table |-> tbl, deleted |-> FALSE]
    ELSE [table |-> [tbl EXCEPT ![item_id].deleted = TRUE,
                                ![item_id].updated_at = Some(t)],
          deleted |-> TRUE]

-----------------------------------------------------------------------------
(* The item service (services/item_service.py). A service call returns the *)
(* tables as it leaves them and its outcome.                               *)

\* an int returned by a call
Count(n) == [count |-> n]

ItemResult(success, it, error) ==
    [success |-> success, item |-> it, error |-> error]

\* the dates not validated
create_item_validate_no_dates(projs, project_id, fields) ==
    IF project_get_by_id(projs, project_id) = None
    THEN "Project not found"
    ELSE IF fields.percent_complete < 0 \/ fields.percent_complete > 100
    THEN "Percent complete must be between 0 and 100"
    ELSE ""

\* percent_complete validated one off at the top
create_item_validate_to_101(projs, project_id, fields) ==
    IF project_get_by_id(projs, project_id) = None
    THEN "Project not found"
    ELSE IF /\ fields.start_date # None /\ fields.finish_date # None
            /\ Val(fields.finish_date) < Val(fields.start_date)
    THEN "Finish date must be after start date"
    ELSE IF fields.percent_complete < 0 \/ fields.percent_complete > 101
    THEN "Percent complete must be between 0 and 100"
    ELSE ""

\* create_item up to its validations: the error it returns, "" if none
create_item_validate(projs, project_id, fields) ==
    IF project_get_by_id(projs, project_id) = None
    THEN "Project not found"
    ELSE IF /\ fields.start_date # None /\ fields.finish_date # None
            /\ Val(fields.finish_date) < Val(fields.start_date)
    THEN "Finish date must be after start date"
    ELSE IF fields.percent_complete < 0 \/ fields.percent_complete > 100
    THEN "Percent complete must be between 0 and 100"
    ELSE ""

\* create_item from the temporary item on: the indicator is calculated on
\* an item without updated_at, then the row is inserted
create_item_insert(tbl, project_id, item_num, fields, t) ==
    Let(calculate_indicator(
            [draft |-> fields.draft,
             percent_complete |-> fields.percent_complete,
             start_date |-> fields.start_date,
             finish_date |-> fields.finish_date,
             deadline |-> fields.deadline,
             updated_at |-> None], date(t)),
        LAMBDA indicator :
    IF indicator.exc # ""
    THEN [table |-> tbl, exc |-> indicator.exc,
          value |-> ItemResult(FALSE, None, "")]
    ELSE Let(create(tbl, project_id, item_num, fields, indicator.value, t),
             LAMBDA created :
         [table |-> created.table, exc |-> "",
          value |-> ItemResult(TRUE, Some(created.item), "")]))

\* ItemService.create_item, run without interruption
create_item(projs, tbl, project_id, fields, t) ==
    Let(create_item_validate(projs, project_id, fields), LAMBDA error :
    IF error # ""
    THEN [projects |-> projs, table |-> tbl, exc |-> "",
          value |-> ItemResult(FALSE, None, error)]
    ELSE Let(increment_item_num(projs, project_id), LAMBDA number :
         IF number.exc # ""
         THEN [projects |-> projs, table |-> tbl, exc |-> number.exc,
               value |-> ItemResult(FALSE, None, "")]
         ELSE Let(create_item_insert(tbl, project_id, number.value,
                                     fields, t),
                  LAMBDA inserted :
              [projects |-> number.projects, table |-> inserted.table,
               exc |-> inserted.exc, value |-> inserted.value])))

\* update_item from the repository update on: the indicator is calculated
\* on the updated item and written if it is not the stored one
update_item_recalculate(tbl, item_id, given, t) ==
    Let(update(tbl, item_id, given, t), LAMBDA updated :
    IF updated.item = None
    THEN [table |-> updated.table, exc |-> "",
          value |-> ItemResult(FALSE, None, "Item not found")]
    ELSE Let(calculate_indicator(Val(updated.item), date(t)),
             LAMBDA new_indicator :
         IF new_indicator.exc # ""
         THEN [table |-> updated.table, exc |-> new_indicator.exc,
               value |-> ItemResult(FALSE, None, "")]
         ELSE IF new_indicator.value # Val(updated.item).indicator
         THEN Let(update_indicator(updated.table, item_id,
                                   new_indicator.value, t),
                  LAMBDA written :
              [table |-> written.table, exc |-> "",
               value |-> ItemResult(TRUE,
                             item_get_by_id(written.table, item_id), "")])
         ELSE [table |-> updated.table, exc |-> "",
               value |-> ItemResult(TRUE, updated.item, "")]))

\* ItemService.update_item
update_item(tbl, item_id, given, t) ==
    Let(item_get_by_id(tbl, item_id), LAMBDA existing :
    IF existing = None
    THEN [table |-> tbl, exc |-> "",
          value |-> ItemResult(FALSE, None, "Item not found")]
    ELSE LET start == IF given.start_date # None THEN given.start_date
                      ELSE Val(existing).start_date
             finish == IF given.finish_date # None THEN given.finish_date
                       ELSE Val(existing).finish_date
             pct == IF given.percent_complete # None
                    THEN Val(given.percent_complete)
                    ELSE Val(existing).percent_complete
         IN  IF start # None /\ finish # None /\ Val(finish) < Val(start)
             THEN [table |-> tbl, exc |-> "",
                   value |-> ItemResult(FALSE, None,
                                 "Finish date must be after start date")]
             ELSE IF pct < 0 \/ pct > 100
             THEN [table |-> tbl, exc |-> "",
                   value |-> ItemResult(FALSE, None,
                                 "Percent complete must be between 0 and 100")]
             ELSE update_item_recalculate(tbl, item_id, given, t))

\* ItemService.delete_item
delete_item(tbl, item_id, t) ==
    Let(soft_delete(tbl, item_id, t), LAMBDA deleted :
    IF ~deleted.deleted
    THEN [table |-> tbl, exc |-> "",
          value |-> ItemResult(FALSE, None, "Item not found")]
    ELSE [table |-> deleted.table, exc |-> "",
          value |-> ItemResult(TRUE, None, "")])

\* the items of the list with the indicator calculated for each
calculated(its, t) ==
    [i \in 1..Len(its) |-> [id |-> its[i].id, stored |-> its[i].indicator,
                            new |-> calculate_indicator(its[i], date(t))]]

\* every item of the project put on the list of updates
update_all_indicators_every_item(projs, tbl, project_id, t) ==
    Let(calculated(get_by_project_id(tbl, project_id), t), LAMBDA calc :
    Let(batch_update_indicators(tbl,
            [i \in 1..Len(calc) |-> <<calc[i].id, calc[i].new.value>>], t),
        LAMBDA batch :
    [projects |-> update_indicators_timestamp(projs, project_id, t),
     table |-> batch.table, exc |-> "", value |-> Count(batch.count)]))

\* ItemService.update_all_indicators
update_all_indicators(projs, tbl, project_id, t) ==
    Let(calculated(get_by_project_id(tbl, project_id), t), LAMBDA calc :
    IF \E i \in 1..Len(calc) : calc[i].new.exc # ""
    THEN [projects |-> projs, table |-> tbl,
          exc |-> calc[CHOOSE i \in 1..Len(calc) : calc[i].new.exc # ""]
                      .new.exc,
          value |-> Count(0)]
    ELSE LET changed == SelectSeq(calc, LAMBDA c : c.new.value # c.stored)
             updates == [i \in 1..Len(changed) |->
                           <<changed[i].id, changed[i].new.value>>]
         IN  Let(batch_update_indicators(tbl, updates, t), LAMBDA batch :
             [projects |-> update_indicators_timestamp(projs, project_id, t),
              table |-> batch.table, exc |-> "",
              value |-> Count(batch.count)]))

-----------------------------------------------------------------------------
(* The service called by one client after another: every call runs to its  *)
(* end before the next one starts, and between calls the clock may jump.   *)

\* the clock jumps past the completed-recently threshold
Jump == (COMPLETED_RECENTLY_DAYS + 1) * TicksPerDay

\* percent_complete as callers give it, out of range included
ArgPercents == {0, 100, 101}

\* the arguments of create_item
CreateFields ==
    [draft : BOOLEAN, percent_complete : ArgPercents,
     start_date : {None}, finish_date : {None}, deadline : {None}]

\* the arguments of update_item: None for a field that is not given
GivenFields ==
    [draft : {None, Some(TRUE), Some(FALSE)},
     percent_complete : {None} \cup {Some(p) : p \in ArgPercents},
     start_date : {None}, finish_date : {None}, deadline : {None}]

\* project ids callers give: those of the projects and one of no project
ProjectArgs == 0..MaxProjects

ItemArgs == 1..MaxItems

Returns(op, arg, outcome) ==
    [op |-> op, arg |-> arg, exc |-> outcome.exc, value |-> outcome.value]

InitService ==
    /\ projects = [p \in 1..MaxProjects |->
                     [next_item_num |-> 1, indicators_updated |-> None,
                      deleted |-> FALSE]]
    /\ table = <<>>
    /\ now = 0
    /\ ret = [op |-> "", arg |-> 0, exc |-> "", value |-> Count(0)]
    /\ calls = <<>>
    /\ pc = "serve"
    /\ EngineIdle
    /\ SeverityIdle
    /\ BatchIdle
    /\ DependencyIdle

\* await item_service.create_item(project_id, ...)
CreateItem(project_id, fields) ==
    /\ Len(table) < MaxItems
    /\ \E outcome \in {create_item(projects, table, project_id, fields, now)} :
           /\ projects' = outcome.projects
           /\ table' = outcome.table
           /\ ret' = Returns("create_item", project_id, outcome)
    /\ UNCHANGED <<now, calls, pc, engineVars, severityVars, batchVars,
                   dependencyVars>>

\* await item_service.update_item(item_id, ...)
UpdateItem(item_id, given) ==
    /\ \E outcome \in {update_item(table, item_id, given, now)} :
           /\ table' = outcome.table
           /\ ret' = Returns("update_item", item_id, outcome)
    /\ UNCHANGED <<projects, now, calls, pc, engineVars, severityVars,
                   batchVars,
                   dependencyVars>>

\* await item_service.delete_item(item_id)
DeleteItem(item_id) ==
    /\ \E outcome \in {delete_item(table, item_id, now)} :
           /\ table' = outcome.table
           /\ ret' = Returns("delete_item", item_id, outcome)
    /\ UNCHANGED <<projects, now, calls, pc, engineVars, severityVars,
                   batchVars,
                   dependencyVars>>

\* await item_service.update_all_indicators(project_id)
UpdateAllIndicators(project_id) ==
    /\ \E outcome \in
           {update_all_indicators(projects, table, project_id, now)} :
           /\ projects' = outcome.projects
           /\ table' = outcome.table
           /\ ret' = Returns("update_all_indicators", project_id, outcome)
    /\ UNCHANGED <<now, calls, pc, engineVars, severityVars, batchVars,
                   dependencyVars>>

\* await project_repo.soft_delete(project_id)
DeleteProject(project_id) ==
    /\ projects' = project_soft_delete(projects, project_id)
    /\ ret' = [op |-> "soft_delete", arg |-> project_id, exc |-> "",
               value |-> [deleted |->
                            project_get_by_id(projects, project_id) # None]]
    /\ UNCHANGED <<table, now, calls, pc, engineVars, severityVars,
                   batchVars,
                   dependencyVars>>

\* time passes
Tick ==
    /\ now + Jump <= MaxJumps * Jump
    /\ now' = now + Jump
    /\ UNCHANGED <<projects, table, ret, calls, pc, engineVars,
                   severityVars, batchVars,
                   dependencyVars>>

NextService ==
    \/ \E project_id \in ProjectArgs, fields \in CreateFields :
          CreateItem(project_id, fields)
    \/ \E item_id \in ItemArgs, given \in GivenFields :
          UpdateItem(item_id, given)
    \/ \E item_id \in ItemArgs : DeleteItem(item_id)
    \/ \E project_id \in ProjectArgs : UpdateAllIndicators(project_id)
    \/ Tick

SpecService == InitService /\ [][NextService]_vars

\* the indicator calculate_indicator gives a stored item on the clock's date
Fresh(row, t) == calculate_indicator(row, date(t)).value

\* the active items of the project whose fresh indicator is not the stored
\* one
Changed(project_id) ==
    {i \in 1..Len(table) :
        /\ table[i].project_id = project_id
        /\ ~table[i].deleted
        /\ Fresh(table[i], now) # table[i].indicator}

C19_UpdateItemRecalculates ==
    [][\A item_id \in ItemArgs, given \in GivenFields :
          /\ UpdateItem(item_id, given)
          /\ ret'.value.success
          => /\ Val(ret'.value.item).indicator
                    = Fresh(Val(ret'.value.item), now')
             /\ table'[item_id].indicator = Fresh(table'[item_id], now')]_vars

-----------------------------------------------------------------------------
(* create_item called by several clients at once. A call gives up control  *)
(* at each await: after the project is read and the arguments validated,   *)
(* after increment_item_num, and it ends with the insert. Projects may be  *)
(* soft-deleted in between.                                                *)

\* number of clients calling create_item
MaxCalls == 2

Callers == 1..MaxCalls

Idle == [pc |-> "idle", project_id |-> 0, fields |-> <<>>, item_num |-> 0]

\* the calls that hold or will hold a row of the items table
InFlight == {c \in Callers : calls[c].pc # "idle"}

InitCreate ==
    /\ projects = [p \in 1..MaxProjects |->
                     [next_item_num |-> 1, indicators_updated |-> None,
                      deleted |-> FALSE]]
    /\ table = <<>>
    /\ now = 0
    /\ ret = [op |-> "", arg |-> 0, exc |-> "", value |-> Count(0)]
    /\ calls = [c \in Callers |-> Idle]
    /\ pc = "serve"
    /\ EngineIdle
    /\ SeverityIdle
    /\ BatchIdle
    /\ DependencyIdle

\* create_item up to its first await and the validations after it
CreateBegin(c, project_id, fields) ==
    /\ calls[c].pc = "idle"
    /\ Len(table) + Cardinality(InFlight) < MaxItems
    /\ \E error \in {create_item_validate(projects, project_id, fields)} :
           IF error # ""
           THEN /\ ret' = Returns("create_item", project_id,
                              [exc |-> "",
                               value |-> ItemResult(FALSE, None, error)])
                /\ UNCHANGED calls
           ELSE /\ calls' = [calls EXCEPT ![c] =
                               [pc |-> "increment", project_id |-> project_id,
                                fields |-> fields, item_num |-> 0]]
                /\ UNCHANGED ret
    /\ UNCHANGED <<projects, table, now, pc, engineVars, severityVars,
                   batchVars,
                   dependencyVars>>

\* item_num = await self._project_repo.increment_item_num(project_id)
CreateIncrement(c) ==
    /\ calls[c].pc = "increment"
    /\ \E number \in {increment_item_num(projects, calls[c].project_id)} :
           IF number.exc # ""
           THEN /\ ret' = Returns("create_item", calls[c].project_id,
                              [exc |-> number.exc,
                               value |-> ItemResult(FALSE, None, "")])
                /\ calls' = [calls EXCEPT ![c] = Idle]
                /\ UNCHANGED projects
           ELSE /\ projects' = number.projects
                /\ calls' = [calls EXCEPT ![c].pc = "insert",
                                          ![c].item_num = number.value]
                /\ UNCHANGED ret
    /\ UNCHANGED <<table, now, pc, engineVars, severityVars, batchVars,
                   dependencyVars>>

\* the indicator calculated and the row inserted; the call returns
CreateInsert(c) ==
    /\ calls[c].pc = "insert"
    /\ \E inserted \in
           {create_item_insert(table, calls[c].project_id,
                               calls[c].item_num, calls[c].fields, now)} :
           /\ table' = inserted.table
           /\ ret' = Returns("create_item", calls[c].project_id, inserted)
    /\ calls' = [calls EXCEPT ![c] = Idle]
    /\ UNCHANGED <<projects, now, pc, engineVars, severityVars, batchVars,
                   dependencyVars>>

NextCreate ==
    \/ \E c \in Callers, project_id \in ProjectArgs, fields \in CreateFields :
          CreateBegin(c, project_id, fields)
    \/ \E c \in Callers : CreateIncrement(c)
    \/ \E c \in Callers : CreateInsert(c)
    \/ \E project_id \in ProjectArgs : DeleteProject(project_id)

SpecCreate == InitCreate /\ [][NextCreate]_vars

\* no two items of one project have the same item_num
UniqueItemNums(tbl) ==
    \A i, j \in 1..Len(tbl) :
        i # j /\ tbl[i].project_id = tbl[j].project_id
            => tbl[i].item_num # tbl[j].item_num

\* C20: item numbers are unique per project: increment_item_num returns the
\* project's next_item_num as it was before the call and leaves it one
\* greater, so two items created through create_item in one project get
\* different item_num values, also when create_item calls interleave; on a
\* missing or soft-deleted project it raises ValueError and changes nothing.
C20_UniqueItemNums ==
    [][/\ UniqueItemNums(table')
       /\ \A c \in Callers :
             CreateIncrement(c) =>
                 LET project_id == calls[c].project_id
                 IN  IF project_get_by_id(projects, project_id) # None
                     THEN /\ calls'[c].item_num
                                 = projects[project_id].next_item_num
                          /\ projects'[project_id].next_item_num
                                 = projects[project_id].next_item_num + 1
                     ELSE /\ ret'.exc = ValueError
                          /\ projects' = projects
                          /\ table' = table]_vars

\* two calls on project 1 that overtook each other: the item inserted first
\* holds the number handed out second
C20_Witness ==
    /\ Len(table) = 2
    /\ table[1].project_id = 1 /\ table[2].project_id = 1
    /\ table[1].item_num = 2 /\ table[2].item_num = 1
    /\ projects[1].next_item_num = 3


-----------------------------------------------------------------------------
(* ItemDependencyRepository: the item_dependencies table holds a row per   *)
(* dependency, item_id depending on depends_on_id.  The statements are     *)
(* taken as written; the table is given no constraint of its own.          *)

\* the items dependencies are added between
MaxNodes == 3

\* the rows the dependency table holds at most
MaxDependencies == 3

Nodes == 1..MaxNodes

ItemDependency(item_id, depends_on_id) ==
    [item_id |-> item_id, depends_on_id |-> depends_on_id]

\* FROM item_dependencies
Rows(deps) == {deps[i] : i \in 1..Len(deps)}

\* SELECT 1 FROM item_dependencies WHERE item_id = $1 AND depends_on_id = $2
exists(deps, item_id, depends_on_id) ==
    \E d \in Rows(deps) :
        d.item_id = item_id /\ d.depends_on_id = depends_on_id

\* the recursive part of dep_chain: the rows joined to the chain so far,
\* until no row is new
RECURSIVE dep_chain(_, _)
dep_chain(deps, chain) ==
    LET joined ==
            chain \cup {d \in Rows(deps) :
                          \E c \in chain : d.item_id = c.depends_on_id}
    IN  IF joined = chain THEN chain ELSE dep_chain(deps, joined)

\* the chain starts from the rows of depends_on_id ($1) and is searched
\* for a row that depends on item_id ($2)
would_create_cycle(deps, item_id, depends_on_id) ==
    \E c \in dep_chain(deps, {d \in Rows(deps) : d.item_id = depends_on_id}) :
        c.depends_on_id = item_id

add(deps, item_id, depends_on_id) ==
    IF exists(deps, item_id, depends_on_id)
    THEN [exc |-> ValueError,
          value |-> [error |-> "Dependency already exists"],
          dependencies |-> deps]
    ELSE IF would_create_cycle(deps, item_id, depends_on_id)
    THEN [exc |-> ValueError,
          value |-> [error |-> "Adding this dependency would create a cycle"],
          dependencies |-> deps]
    ELSE [exc |-> "",
          value |-> ItemDependency(item_id, depends_on_id),
          dependencies |->
              Append(deps, ItemDependency(item_id, depends_on_id))]

\* DELETE FROM item_dependencies WHERE item_id = $1 AND depends_on_id = $2
RECURSIVE delete_where(_, _)
delete_where(deps, row) ==
    IF deps = <<>> THEN <<>>
    ELSE IF Head(deps) = row THEN delete_where(Tail(deps), row)
    ELSE <<Head(deps)>> \o delete_where(Tail(deps), row)

\* deleted = result == "DELETE 1"
remove(deps, item_id, depends_on_id) ==
    LET kept == delete_where(deps, ItemDependency(item_id, depends_on_id))
    IN  [exc |-> "",
         value |-> [deleted |-> Len(deps) - Len(kept) = 1],
         dependencies |-> kept]

InitDependencies ==
    /\ dependencies = <<>>
    /\ ret = [op |-> "", arg |-> <<>>, exc |-> "", value |-> [deleted |-> FALSE]]
    /\ projects = <<>> /\ table = <<>> /\ now = 0 /\ calls = <<>>
    /\ pc = "depend"
    /\ EngineIdle
    /\ SeverityIdle
    /\ BatchIdle

\* await dep_repo.add(item_id, depends_on_id)
Add(item_id, depends_on_id) ==
    /\ Len(dependencies) < MaxDependencies
    /\ \E outcome \in {add(dependencies, item_id, depends_on_id)} :
           /\ dependencies' = outcome.dependencies
           /\ ret' = Returns("add", <<item_id, depends_on_id>>, outcome)
    /\ UNCHANGED <<projects, table, now, calls, pc, engineVars,
                   severityVars, batchVars>>

\* await dep_repo.remove(item_id, depends_on_id)
Remove(item_id, depends_on_id) ==
    /\ \E outcome \in {remove(dependencies, item_id, depends_on_id)} :
           /\ dependencies' = outcome.dependencies
           /\ ret' = Returns("remove", <<item_id, depends_on_id>>, outcome)
    /\ UNCHANGED <<projects, table, now, calls, pc, engineVars,
                   severityVars, batchVars>>

NextDependencies ==
    \/ \E item_id \in Nodes, depends_on_id \in Nodes :
          Add(item_id, depends_on_id)
    \/ \E item_id \in Nodes, depends_on_id \in Nodes :
          Remove(item_id, depends_on_id)

SpecDependencies == InitDependencies /\ [][NextDependencies]_vars

\* no two rows of the table are the same dependency
NoDuplicateEdge ==
    \A i, j \in 1..Len(dependencies) :
        dependencies[i] = dependencies[j] => i = j

\* the pairs of items joined by a path of at most n dependencies
RECURSIVE Path(_)
Path(n) ==
    IF n = 1
    THEN {<<d.item_id, d.depends_on_id>> : d \in Rows(dependencies)}
    ELSE Path(n - 1) \cup
         {p \in Nodes \X Nodes :
            \E b \in Nodes : <<p[1], b>> \in Path(n - 1)
                             /\ <<b, p[2]>> \in Path(1)}

\* no item depends on itself, directly or through other items
NoCycle == \A n \in Nodes : <<n, n>> \notin Path(MaxNodes)

\* C21: after any sequence of add and remove calls from an empty table the
\* dependency graph has no duplicate edge and no cycle of any length, a
\* dependency of an item on itself included.
C21_NoDuplicateNoCycle ==
    pc = "depend" => NoDuplicateEdge /\ NoCycle

-----------------------------------------------------------------------------
(* The item repository called directly on items the service has stored.    *)

\* the indicators update_indicator is given: None and two of the enum
IndicatorArgs == {NoIndicator, COMPLETED, IN_PROGRESS}

\* await item_repo.update_indicator(item_id, indicator)
UpdateIndicator(item_id, indicator) ==
    /\ \E outcome \in {update_indicator(table, item_id, indicator, now)} :
           /\ table' = outcome.table
           /\ ret' = [op |-> "update_indicator", arg |-> item_id, exc |-> "",
                      value |-> [updated |-> outcome.updated]]
    /\ UNCHANGED <<projects, now, calls, pc, engineVars, severityVars,
                   batchVars, dependencyVars>>

NextRepository ==
    \/ \E fields \in CreateFields : CreateItem(1, fields)
    \/ \E item_id \in ItemArgs : DeleteItem(item_id)
    \/ \E item_id \in ItemArgs, indicator \in IndicatorArgs :
          UpdateIndicator(item_id, indicator)
    \/ Tick

SpecRepository == InitService /\ [][NextRepository]_vars

\* C22: update_indicator on an active item sets the stored indicator to the
\* given value and leaves draft, percent_complete, start_date, finish_date,
\* deadline and updated_at as they were; on a missing or soft-deleted item
\* it changes nothing and returns False.
C22_UpdateIndicatorOnly ==
    [][\A item_id \in ItemArgs, indicator \in IndicatorArgs :
          UpdateIndicator(item_id, indicator)
          => IF item_get_by_id(table, item_id) # None
             THEN /\ table' = [table EXCEPT ![item_id].indicator = indicator]
                  /\ ret'.value = [updated |-> TRUE]
             ELSE /\ table' = table
                  /\ ret'.value = [updated |-> FALSE]]_vars

-----------------------------------------------------------------------------
(* create_item and update_item called one after the other with dates and   *)
(* percentages of every kind, valid or not.                                *)

\* the dates callers give: two days after the clock's date
ArgDates == {None, Some(1), Some(2)}

\* percent_complete on both sides of both limits
EdgePercents == {-1, 0, 100, 101}

DatedFields ==
    [draft : {FALSE}, percent_complete : EdgePercents,
     start_date : ArgDates, finish_date : ArgDates, deadline : {None}]

DatedGiven ==
    [draft : {None}, percent_complete : {None} \cup {Some(p) : p \in EdgePercents},
     start_date : ArgDates, finish_date : ArgDates, deadline : {None}]

NextValidate ==
    \/ \E project_id \in {0, 1}, fields \in DatedFields :
          CreateItem(project_id, fields)
    \/ \E item_id \in ItemArgs, given \in DatedGiven :
          UpdateItem(item_id, given)

SpecValidate == InitService /\ [][NextValidate]_vars

\* finish before start, both present
Inverted(start, finish) ==
    start # None /\ finish # None /\ Val(finish) < Val(start)

OutOfRange(percent) == percent < 0 \/ percent > 100

\* the value of a field after an update: the new one when given
Effective(new, stored) == IF new # None THEN new ELSE stored

CreateInvalid(project_id, fields) ==
    \/ project_get_by_id(projects, project_id) = None
    \/ Inverted(fields.start_date, fields.finish_date)
    \/ OutOfRange(fields.percent_complete)

UpdateInvalid(item_id, given) ==
    \/ item_get_by_id(table, item_id) = None
    \/ /\ item_get_by_id(table, item_id) # None
       /\ \/ Inverted(Effective(given.start_date, table[item_id].start_date),
                      Effective(given.finish_date, table[item_id].finish_date))
          \/ OutOfRange(Val(Effective(given.percent_complete,
                                      Some(table[item_id].percent_complete))))

\* the call returned ItemResult(success=False, error=...) and stored nothing
Rejected ==
    /\ ret'.exc = ""
    /\ ~ret'.value.success
    /\ ret'.value.error # ""
    /\ ret'.value.item = None
    /\ table' = table
    /\ projects' = projects

\* C23: create_item and update_item with a missing project or item, a
\* finish date before the start date or a percent_complete outside 0..100
\* (effective values for update_item) return an error result and leave
\* the items and the project's next_item_num unchanged.
C23_InvalidRejected ==
    [][/\ \A project_id \in {0, 1}, fields \in DatedFields :
             /\ ret'.op = "create_item" /\ ret'.arg = project_id
             /\ CreateInvalid(project_id, fields)
             /\ CreateItem(project_id, fields)
             => Rejected
       /\ \A item_id \in ItemArgs, given \in DatedGiven :
             /\ ret'.op = "update_item" /\ ret'.arg = item_id
             /\ UpdateInvalid(item_id, given)
             /\ UpdateItem(item_id, given)
             => Rejected]_vars

\* an update was refused for its dates although it gave one date only:
\* the other one is the stored date
C23_Witness ==
    /\ pc = "serve"
    /\ ret.op = "update_item"
    /\ ret.value.error = "Finish date must be after start date"
    /\ \E other \in ItemArgs :
          /\ other # ret.arg
          /\ item_get_by_id(table, other) # None
          /\ table[other].start_date = Some(2)
          /\ table[other].finish_date = Some(2)
    /\ table[ret.arg].start_date = Some(1)
    /\ table[ret.arg].finish_date = Some(1)

\* C27: every item stored through create_item and update_item has
\* 0 <= percent_complete <= 100 and, with both dates present,
\* start_date <= finish_date.
C27_StoredItemsValid ==
    pc = "serve" =>
        \A i \in 1..Len(table) :
            /\ ~OutOfRange(table[i].percent_complete)
            /\ ~Inverted(table[i].start_date, table[i].finish_date)

\* both limits are stored, next to an item on a single day, after a
\* refused call
C27_Witness ==
    /\ pc = "serve"
    /\ Len(table) = 2
    /\ table[1].percent_complete = 100
    /\ table[2].percent_complete = 0
    /\ table[1].start_date = Some(2) /\ table[1].finish_date = Some(2)
    /\ ~ret.value.success

-----------------------------------------------------------------------------
(* Recalculation run after recalculation, under SpecService.               *)

\* the last call was a run of update_all_indicators on the project, at the
\* time the clock shows
JustRecalculated(project_id) ==
    /\ ret.op = "update_all_indicators"
    /\ ret.arg = project_id
    /\ ret.exc = ""
    /\ project_get_by_id(projects, project_id) # None
    /\ projects[project_id].indicators_updated = Some(now)

\* C24: a run of update_all_indicators that directly follows a run on the
\* same project on the same date computes for every item the indicator
\* that is stored, writes nothing and returns 0.
C24_RecalculationIdempotent ==
    [][\A project_id \in ProjectArgs :
          /\ JustRecalculated(project_id)
          /\ UpdateAllIndicators(project_id)
          => /\ Changed(project_id) = {}
             /\ table' = table
             /\ ret'.value = Count(0)]_vars

\* the complete items of the project a run left with Completed stored:
\* the last call was a run on the project, so no user has edited since
LeftCompleted(project_id) ==
    {i \in 1..Len(table) :
        /\ ret.op = "update_all_indicators" /\ ret.arg = project_id
        /\ table[i].project_id = project_id
        /\ ~table[i].deleted
        /\ ~table[i].draft
        /\ table[i].percent_complete >= 100
        /\ table[i].indicator = COMPLETED}

\* C25: for an item at percent_complete >= 100 that no user edits, once a
\* run of update_all_indicators has left Completed stored, every later run,
\* on the same or a later date, leaves Completed stored: the indicator
\* never goes back to Completed Recently.
C25_CompletedStays ==
    [][\A project_id \in ProjectArgs :
          /\ LeftCompleted(project_id) # {}
          /\ UpdateAllIndicators(project_id)
          => \A i \in LeftCompleted(project_id) :
                table'[i].indicator = COMPLETED]_vars

-----------------------------------------------------------------------------
(* The indicator of a new item, under SpecService.                         *)

\* the row a step has added to the items table: only create_item adds one
Created == table'[Len(table')]

-----------------------------------------------------------------------------
(* Drafts: created, edited, published and recalculated.                    *)

\* update_item(item_id, draft=False)
PublishGiven ==
    [draft |-> Some(FALSE), percent_complete |-> None, start_date |-> None,
     finish_date |-> None, deadline |-> None]

\* the draft flag not looked at
publish_item_any(tbl, item_id, t) ==
    Let(item_get_by_id(tbl, item_id), LAMBDA it :
    IF it = None
    THEN [table |-> tbl, exc |-> "",
          value |-> ItemResult(FALSE, None, "Item not found")]
    ELSE update_item(tbl, item_id, PublishGiven, t))

\* ItemService.publish_item
publish_item(tbl, item_id, t) ==
    Let(item_get_by_id(tbl, item_id), LAMBDA it :
    IF it = None
    THEN [table |-> tbl, exc |-> "",
          value |-> ItemResult(FALSE, None, "Item not found")]
    ELSE IF ~Val(it).draft
    THEN [table |-> tbl, exc |-> "",
          value |-> ItemResult(FALSE, None, "Item is not a draft")]
    ELSE update_item(tbl, item_id, PublishGiven, t))

\* a finish date that lies ahead at first and behind after the clock's jump
DraftDates == {None, Some(1)}

DraftPercents == {0, 100}

DraftFields ==
    [draft : BOOLEAN, percent_complete : DraftPercents,
     start_date : {None}, finish_date : DraftDates, deadline : {None}]

DraftGiven ==
    [draft : {None, Some(TRUE), Some(FALSE)},
     percent_complete : {None} \cup {Some(p) : p \in DraftPercents},
     start_date : {None}, finish_date : DraftDates, deadline : {None}]

\* await item_service.publish_item(item_id)
PublishItem(item_id) ==
    /\ \E outcome \in {publish_item(table, item_id, now)} :
           /\ table' = outcome.table
           /\ ret' = Returns("publish_item", item_id, outcome)
    /\ UNCHANGED <<projects, now, calls, pc, engineVars, severityVars,
                   batchVars, dependencyVars>>

NextPublish ==
    \/ \E fields \in DraftFields : CreateItem(1, fields)
    \/ \E item_id \in ItemArgs, given \in DraftGiven :
          UpdateItem(item_id, given)
    \/ \E item_id \in ItemArgs : PublishItem(item_id)
    \/ UpdateAllIndicators(1)
    \/ Tick

SpecPublish == InitService /\ [][NextPublish]_vars

\* every stored draft has no indicator
DraftsHaveNone(tbl) ==
    \A i \in 1..Len(tbl) : tbl[i].draft => tbl[i].indicator = NoIndicator

\* what publish_item has done to the item and returned
Published(item_id) ==
    IF item_get_by_id(table, item_id) = None
    THEN /\ table' = table
         /\ ~ret'.value.success
    ELSE IF ~table[item_id].draft
    THEN /\ table' = table
         /\ ~ret'.value.success
         /\ ret'.value.error = "Item is not a draft"
    ELSE /\ ret'.value.success
         /\ ~table'[item_id].draft
         /\ table'[item_id].indicator = Fresh(table'[item_id], now)
         /\ ret'.value.item = Some(table'[item_id])
         /\ \A f \in {"percent_complete", "start_date", "finish_date",
                      "deadline", "project_id", "item_num", "deleted"} :
               table'[item_id][f] = table[item_id][f]
         /\ \A i \in 1..Len(table) : i # item_id => table'[i] = table[i]

\* C28: after every create_item, update_item, publish_item and
\* update_all_indicators call every stored draft has indicator None;
\* publish_item on a non-draft item returns the error "Item is not a draft"
\* and changes nothing, and on a draft it sets draft = false and stores the
\* indicator calculate_indicator gives for the item as it then is.
C28_DraftsAndPublish ==
    [][/\ DraftsHaveNone(table')
       /\ \A item_id \in ItemArgs :
             /\ ret'.op = "publish_item" /\ ret'.arg = item_id
             /\ PublishItem(item_id)
             => Published(item_id)]_vars

\* a draft past its finish date was published and is Late Finish, next to
\* a complete draft that has no indicator
C28_Witness ==
    /\ pc = "serve"
    /\ ret.op = "publish_item"
    /\ ret.value.success
    /\ table[ret.arg].indicator = LATE_FINISH
    /\ \E i \in 1..Len(table) :
          /\ table[i].draft
          /\ table[i].percent_complete = 100
          /\ table[i].indicator = NoIndicator

-----------------------------------------------------------------------------
(* The indicator of one unchanged item calculated day after day, as the    *)
(* recalculation does with date.today(): the severities of the results     *)
(* are kept in the order of the dates.                                     *)

\* the items followed through the days: updated_at is read at 100% only,
\* and an item above 100% is complete as one at 100%
LaterItems(t) ==
    [draft : BOOLEAN, percent_complete : {p \in Percents : p <= 100},
     start_date : OptDays, finish_date : OptDays,
     deadline : Deadlines(t), updated_at : {None}]

InitLater ==
    /\ today \in Todays
    /\ item \in LaterItems(today)
    /\ result = <<>>
    /\ severities = <<>>
    /\ indicators = <<>>
    /\ pc = "call"
    /\ BatchIdle
    /\ ServiceIdle
    /\ DependencyIdle

\* calculate_indicator(item, today) on the first date
FirstDay ==
    /\ pc = "call"
    /\ \E outcome \in {calculate_indicator(item, today)} :
           /\ result' = outcome
           /\ severities' = <<get_indicator_severity(outcome.value)>>
    /\ pc' = "later"
    /\ UNCHANGED <<item, today, indicators, batchVars, serviceVars,
                   dependencyVars>>

\* a day passes and the indicator is calculated again
NextDay ==
    /\ pc = "later"
    /\ today < MaxDay
    /\ today' = today + 1
    /\ \E outcome \in {calculate_indicator(item, today + 1)} :
           /\ result' = outcome
           /\ severities' =
                  Append(severities, get_indicator_severity(outcome.value))
    /\ UNCHANGED <<item, pc, indicators, batchVars, serviceVars,
                   dependencyVars>>

NextLater == FirstDay \/ NextDay

SpecLater == InitLater /\ [][NextLater]_vars

\* the item followed is not a draft and below 100%
UnfinishedLater ==
    pc = "later" /\ ~item.draft /\ item.percent_complete < 100

\* C30: for a non-draft item with percent_complete < 100 and unchanged
\* fields the severity of the calculated indicator never decreases from a
\* reference date to a later one; once Late Finish or Beyond Deadline is
\* returned, every later date gives at least that severity.
C30_SeverityNeverDecreases ==
    UnfinishedLater =>
        /\ result.exc = ""
        /\ \A d1, d2 \in 1..Len(severities) :
              d1 <= d2 => severities[d1] <= severities[d2]

\* Finishing Soon on a first date, Late Start on a later date and Late
\* Finish on one later still
C30_Witness ==
    /\ UnfinishedLater
    /\ \E d1, d2, d3 \in 1..Len(severities) :
          /\ d1 < d2 /\ d2 < d3
          /\ severities[d1] = get_indicator_severity(FINISHING_SOON)
          /\ severities[d2] = get_indicator_severity(LATE_START)
          /\ severities[d3] = get_indicator_severity(LATE_FINISH)

\* the indicators of rules 3-10
UnfinishedIndicators ==
    {BEYOND_DEADLINE, LATE_FINISH, LATE_START, TRENDING_LATE,
     FINISHING_SOON, STARTING_SOON, IN_PROGRESS, NOT_STARTED}

\* C29: for a non-draft item with percent_complete < 100 the returned
\* indicator is the one of highest get_indicator_severity among those of
\* rules 3-10 whose condition holds, and None when none holds; the
\* conditions of Starting Soon and In Progress never hold together.
C29_HighestSeverityBelow100 ==
    UnfinishedLater =>
        /\ result.exc = ""
        /\ result.value \in UnfinishedIndicators \cup {NoIndicator}
        /\ result.value \in UnfinishedIndicators => RuleHolds(result.value)
        /\ \A indicator \in UnfinishedIndicators :
              RuleHolds(indicator) =>
                  get_indicator_severity(indicator)
                      <= get_indicator_severity(result.value)
        /\ ~(RuleHolds(STARTING_SOON) /\ RuleHolds(IN_PROGRESS))

\* Finishing Soon is returned for an item whose start is as near: the
\* conditions of rules 7, 8 and 10 hold together
C29_Witness ==
    /\ UnfinishedLater
    /\ Returned(FINISHING_SOON)
    /\ RuleHolds(STARTING_SOON)
    /\ RuleHolds(NOT_STARTED)

====
